---- MODULE Spec2Model ----
(***************************************************************************)
(* A model of three-d's object rendering and GUI integration:              *)
(*   - GUI           (src/src/gui/egui_gui.rs): update / render            *)
(*   - Model         (src/src/renderer/object/model.rs)                    *)
(*   - BoundingBox   (src/src/renderer/object/bounding_box.rs)             *)
(* Each object has its own specifications (SpecGUI and SpecInput for the   *)
(* GUI, SpecModel and SpecLights for the Model, SpecBox for the            *)
(* BoundingBox); the variables of the other objects stay at their idle     *)
(* values.                                                                 *)
(***************************************************************************)
EXTENDS Integers, Sequences, FiniteSets, Bags, TLC

VARIABLES
    gui,          \* the GUI struct: width, height, texture_version, texture
    egui,         \* the egui context the GUI owns (atlas version, frame, answers)
    frame_input,  \* the caller's FrameInput as the last update left it
    gui_call,     \* the last GUI call: its operation, arguments and result
    gui_hist,     \* history of the render calls made so far
    model,        \* the Model struct
    model_call,   \* the last Model call: its operation, arguments and result
    box,          \* the BoundingBox struct
    box_call      \* the last BoundingBox call

vars == <<gui, egui, frame_input, gui_call, gui_hist, model, model_call, box, box_call>>

gui_vars == <<gui, egui, frame_input, gui_call, gui_hist>>
model_vars == <<model, model_call>>
box_vars == <<box, box_call>>

(***************************************************************************)
(* Bounds of the model.                                                    *)
(***************************************************************************)
\* longest event list of a frame
MaxEvents == 2
\* largest atlas version the GUI logic reaches
MaxVersion == 2
\* number of render calls followed
MaxRenders == 3
\* most clipped meshes one end_frame returns
MaxMeshes == 2
\* most directional, spot and point lights of one render_with_lighting call
MaxLights == 2
\* largest extent of a bounding box along an axis
MaxExtent == 3

\* ------------------------------------------------------------------------
\* GUI (egui_gui.rs)
\* ------------------------------------------------------------------------

\* Option<Texture2D>: None, or Some texture built from an atlas version.
NoTexture == [some |-> FALSE]
SomeTexture(version) == [some |-> TRUE, version |-> version]
NoVersion == -1
NoCall == [op |-> "new", result |-> "Ok"]
\* The context before its first begin_frame has been given no input.
NoInput == [some |-> FALSE]

\* Event kinds that carry a `handled` flag.
HandledKinds == {"Key", "MouseClick", "MouseMotion", "MouseWheel"}
PointerKinds == {"MouseClick", "MouseWheel", "MouseMotion"}

\* scroll deltas and modifier states an event may carry
Deltas == {1, 2}
ModifierStates == {"Released", "Pressed"}

\* The input events of a frame. Key codes, positions and buttons are left
\* out: no decision of update or render reads them.
Events ==
    [kind : {"Key", "MouseClick", "MouseMotion"}, handled : BOOLEAN]
        \cup [kind : {"MouseWheel"}, handled : BOOLEAN, delta : Deltas]
        \cup [kind : {"Text", "MouseLeave", "MouseEnter"}]
        \cup [kind : {"ModifiersChange"}, modifiers : ModifierStates]

\* Window configurations: logical size and device pixel ratio (in tenths).
Windows ==
    { [window_width |-> 6, window_height |-> 4, device_pixel_ratio |-> 5],
      [window_width |-> 4, window_height |-> 3, device_pixel_ratio |-> 15],
      [window_width |-> 8, window_height |-> 6, device_pixel_ratio |-> 20] }

SeqsUpTo(S, n) == UNION {[1..k -> S] : k \in 0..n}

\* Every FrameInput with at most n events.
Frames(n) ==
    { [events |-> es, window_width |-> w.window_width,
       window_height |-> w.window_height,
       device_pixel_ratio |-> w.device_pixel_ratio] :
          es \in SeqsUpTo(Events, n), w \in Windows }

\* EguiEvents without the tests of the handled flags.
RECURSIVE EguiEventsForwardingHandled(_)
EguiEventsForwardingHandled(events) ==
    IF events = <<>> THEN <<>>
    ELSE LET e == Head(events)
             rest == EguiEventsForwardingHandled(Tail(events))
         IN  CASE e.kind = "Key" -> <<"Key">> \o rest
               [] e.kind = "MouseClick" -> <<"PointerButton">> \o rest
               [] e.kind = "MouseMotion" -> <<"PointerMoved">> \o rest
               [] e.kind = "Text" -> <<"Text">> \o rest
               [] e.kind = "MouseLeave" -> <<"PointerGone">> \o rest
               [] OTHER -> rest

\* construct_input_state: the egui events, in frame order.
RECURSIVE EguiEvents(_)
EguiEvents(events) ==
    IF events = <<>> THEN <<>>
    ELSE LET e == Head(events)
             rest == EguiEvents(Tail(events))
         IN  CASE e.kind = "Key" ->
                    IF ~e.handled THEN <<"Key">> \o rest ELSE rest
               [] e.kind = "MouseClick" ->
                    IF ~e.handled THEN <<"PointerButton">> \o rest ELSE rest
               [] e.kind = "MouseMotion" ->
                    IF ~e.handled THEN <<"PointerMoved">> \o rest ELSE rest
               [] e.kind = "Text" -> <<"Text">> \o rest
               [] e.kind = "MouseLeave" -> <<"PointerGone">> \o rest
               [] OTHER -> rest

\* A scroll_delta that adds up the unhandled wheel events.
RECURSIVE ScrollDeltaSummed(_, _)
ScrollDeltaSummed(events, i) ==
    IF i = 0 THEN 0
    ELSE LET e == events[i]
         IN  IF e.kind = "MouseWheel" /\ ~e.handled
             THEN e.delta + ScrollDeltaSummed(events, i - 1)
             ELSE ScrollDeltaSummed(events, i - 1)

\* construct_input_state: scroll_delta after the events up to index i.
RECURSIVE ScrollDelta(_, _)
ScrollDelta(events, i) ==
    IF i = 0 THEN 0
    ELSE LET e == events[i]
         IN  IF e.kind = "MouseWheel" /\ ~e.handled
             THEN e.delta
             ELSE ScrollDelta(events, i - 1)

\* construct_input_state: egui_modifiers after the events up to index i.
RECURSIVE EguiModifiers(_, _)
EguiModifiers(events, i) ==
    IF i = 0 THEN FALSE
    ELSE LET e == events[i]
         IN  IF e.kind = "ModifiersChange"
             THEN e.modifiers = "Pressed"
             ELSE EguiModifiers(events, i - 1)

construct_input_state(fi) ==
    [ scroll_delta |-> ScrollDelta(fi.events, Len(fi.events)),
      screen_rect |-> <<fi.window_width, fi.window_height>>,
      pixels_per_point |-> fi.device_pixel_ratio,
      modifiers |-> EguiModifiers(fi.events, Len(fi.events)),
      events |-> EguiEvents(fi.events) ]

\* MarkPointer with the MouseWheel arm missing.
MarkPointerNoWheel(e) ==
    IF e.kind \in {"MouseClick", "MouseMotion"}
    THEN [e EXCEPT !.handled = TRUE] ELSE e

\* The first match of update's loop body, under wants_pointer_input().
MarkPointer(e) ==
    IF e.kind \in PointerKinds THEN [e EXCEPT !.handled = TRUE] ELSE e

\* The second match of update's loop body, under wants_keyboard_input().
MarkKey(e) ==
    IF e.kind = "Key" THEN [e EXCEPT !.handled = TRUE] ELSE e

\* update's loop over frame_input.events.iter_mut(), from event i on.
RECURSIVE UpdateLoop(_, _, _, _, _)
UpdateLoop(events, i, change, wants_pointer, wants_keyboard) ==
    IF i > Len(events) THEN [events |-> events, change |-> change]
    ELSE LET e1 == IF wants_pointer THEN MarkPointer(events[i]) ELSE events[i]
             c1 == IF wants_pointer THEN TRUE ELSE change
             e2 == IF wants_keyboard THEN MarkKey(e1) ELSE e1
             c2 == IF wants_keyboard THEN TRUE ELSE c1
         IN  UpdateLoop([events EXCEPT ![i] = e2], i + 1, c2,
                        wants_pointer, wants_keyboard)

\* The render loop hands the caller's closure the next frame.
new_frame(fi) ==
    /\ frame_input' = fi
    /\ UNCHANGED <<gui, egui, gui_call, gui_hist, model_vars, box_vars>>

\* A GUI call starts: the context calls of the call before it are kept in
\* prev_calls, and calls collects those of this one.
enter(ctx) == [ctx EXCEPT !.prev_calls = ctx.calls, !.calls = <<>>]

\* egui_context.begin_frame(input_state)
begin_frame(ctx, input_state) ==
    [ctx EXCEPT !.in_frame = TRUE,
                !.input = input_state,
                !.pixels_per_point = input_state.pixels_per_point,
                !.calls = Append(@, "begin_frame")]

\* callback(&self.egui_context): the caller lays out the GUI, which decides
\* what the GUI logic wants and whether the atlas changes.
callback(ctx, wants_pointer, wants_keyboard, bump) ==
    [ctx EXCEPT !.version = IF bump THEN @ + 1 ELSE @,
                !.wants_pointer = wants_pointer,
                !.wants_keyboard = wants_keyboard,
                !.calls = Append(@, "callback")]

\* egui_context.end_frame()
end_frame(ctx) ==
    [ctx EXCEPT !.in_frame = FALSE, !.calls = Append(@, "end_frame")]

\* An update that marks the events before it builds the input state.
update_marking_first(wants_pointer, wants_keyboard, bump) ==
    LET fi == frame_input
        loop == UpdateLoop(fi.events, 1, FALSE, wants_pointer, wants_keyboard)
        marked == [fi EXCEPT !.events = loop.events]
        input_state == construct_input_state(marked)
        begun == begin_frame(enter(egui), input_state)
        ctx == callback(begun, wants_pointer, wants_keyboard, bump)
    IN  /\ ctx.version <= MaxVersion
        /\ gui' = [gui EXCEPT !.width = fi.window_width,
                              !.height = fi.window_height]
        /\ egui' = ctx
        /\ frame_input' = marked
        /\ gui_call' = [ op |-> "update",
                         prev_op |-> gui_call.op,
                         prev_modifiers |-> egui.input # NoInput
                                              /\ egui.input.modifiers,
                         events_before |-> fi.events,
                         events_after |-> loop.events,
                         wants_pointer |-> wants_pointer,
                         wants_keyboard |-> wants_keyboard,
                         result |-> "Ok",
                         changed |-> loop.change ]
        /\ UNCHANGED <<gui_hist, model_vars, box_vars>>

\* GUI::update on the caller's frame_input. wants_pointer, wants_keyboard and
\* bump are what the callback makes of the frame: whether the GUI logic
\* wants pointer and keyboard input afterwards, and whether laying out the
\* frame changed the atlas.
update(wants_pointer, wants_keyboard, bump) ==
    LET fi == frame_input
        input_state == construct_input_state(fi)
        begun == begin_frame(enter(egui), input_state)
        ctx == callback(begun, wants_pointer, wants_keyboard, bump)
        loop == UpdateLoop(fi.events, 1, FALSE,
                           ctx.wants_pointer, ctx.wants_keyboard)
    IN  /\ ctx.version <= MaxVersion
        /\ gui' = [gui EXCEPT !.width = fi.window_width,
                              !.height = fi.window_height]
        /\ egui' = ctx
        /\ frame_input' = [fi EXCEPT !.events = loop.events]
        /\ gui_call' = [ op |-> "update",
                         prev_op |-> gui_call.op,
                         prev_modifiers |-> egui.input # NoInput
                                              /\ egui.input.modifiers,
                         events_before |-> fi.events,
                         events_after |-> loop.events,
                         wants_pointer |-> wants_pointer,
                         wants_keyboard |-> wants_keyboard,
                         result |-> "Ok",
                         changed |-> loop.change ]
        /\ UNCHANGED <<gui_hist, model_vars, box_vars>>

\* NeedsRebuild that never compares the versions.
NeedsRebuildNoVersion(g, version) ==
    g.texture = NoTexture

\* render's test for rebuilding the atlas texture.
NeedsRebuild(g, version) ==
    g.texture = NoTexture \/ g.texture_version # version

\* A viewport that multiplies by the pixel ratio before the cast.
ViewportRounded(width, height, pixels_per_point) ==
    [ width |-> (width * pixels_per_point) \div 10,
      height |-> (height * pixels_per_point) \div 10 ]

\* paint_mesh's viewport: the pixel ratio is cast to usize first.
Viewport(width, height, pixels_per_point) ==
    [ width |-> width * (pixels_per_point \div 10),
      height |-> height * (pixels_per_point \div 10) ]

\* paint_mesh: the draw issued for mesh i.
paint_mesh(i, width, height, pixels_per_point, texture) ==
    [ mesh |-> i,
      texture |-> texture,
      screen_size |-> <<width, height>>,
      viewport |-> Viewport(width, height, pixels_per_point) ]

\* What can fail in render: building the texture, or painting mesh k.
RenderFailures(n) ==
    {<<"none", 0>>, <<"texture", 0>>} \cup {<<"mesh", k>> : k \in 1..n}

\* An atlas step that stores the version before the texture is built.
AtlasStepVersionFirst(g, version, fail) ==
    IF ~NeedsRebuild(g, version) THEN g
    ELSE IF fail[1] = "texture" THEN [g EXCEPT !.texture_version = version]
    ELSE [g EXCEPT !.texture = SomeTexture(version),
                   !.texture_version = version]

\* render's atlas step: the GUI after it. A failing Texture2D::new_with_u8
\* returns from render before either field is assigned.
AtlasStep(g, version, fail) ==
    IF ~NeedsRebuild(g, version) \/ fail[1] = "texture" THEN g
    ELSE [g EXCEPT !.texture = SomeTexture(version),
                   !.texture_version = version]

\* A mesh loop that goes on after a failed paint_mesh.
PaintedMeshesPastFailure(n, fail) ==
    IF fail[1] = "texture" THEN 0 ELSE n

\* render's loop over the n clipped meshes: how many of them are drawn.
\* paint_mesh fails before its draw_elements, and its error ends render.
PaintedMeshes(n, fail) ==
    CASE fail[1] = "texture" -> 0
      [] fail[1] = "mesh" -> fail[2] - 1
      [] OTHER -> n

\* GUI::render. n is the number of clipped meshes end_frame and tessellate
\* return; fail is the step whose GPU call returns an error.
render(n, fail) ==
    LET ctx == end_frame(enter(egui))
        version == ctx.version
        rebuild == NeedsRebuild(gui, version)
        g == AtlasStep(gui, version, fail)
        last == PaintedMeshes(n, fail)
        ok == fail[1] = "none"
    IN  /\ gui_hist.renders < MaxRenders
        /\ fail[1] = "texture" => rebuild
        /\ egui' = ctx
        /\ gui' = g
        /\ gui_call' =
              [ op |-> "render",
                prev_op |-> gui_call.op,
                result |-> IF ok THEN "Ok" ELSE "Err",
                rebuilt |-> rebuild /\ fail[1] # "texture",
                meshes |-> n,
                failed |-> fail,
                gui_before |-> gui,
                draws |-> [i \in 1..last |->
                             paint_mesh(i, g.width, g.height,
                                        ctx.pixels_per_point, g.texture)],
                seen |-> version,
                prev_seen |-> gui_hist.seen ]
        /\ gui_hist' =
              [ renders |-> gui_hist.renders + 1,
                builds |-> gui_hist.builds
                             + (IF rebuild /\ fail[1] # "texture" THEN 1 ELSE 0),
                seen |-> version,
                stable |-> gui_hist.stable
                             /\ gui_hist.seen \in {NoVersion, version},
                all_ok |-> gui_hist.all_ok /\ ok,
                build_failed |-> fail[1] = "texture" ]
        /\ UNCHANGED <<frame_input, model_vars, box_vars>>

\* The frames of the render loop below: no event, or one pointer event.
LoopFrames ==
    { [events |-> es, window_width |-> w.window_width,
       window_height |-> w.window_height,
       device_pixel_ratio |-> w.device_pixel_ratio] :
          es \in SeqsUpTo({[kind |-> "MouseClick", handled |-> FALSE]}, 1),
          w \in Windows }

\* GUI::new, no frame begun yet, and the first frame of the render loop.
InitGUI ==
    /\ gui = [width |-> 0, height |-> 0, texture_version |-> 0,
              texture |-> NoTexture]
    /\ egui = [version |-> 0, in_frame |-> FALSE, input |-> NoInput,
               pixels_per_point |-> 10, wants_pointer |-> FALSE,
               wants_keyboard |-> FALSE, calls |-> <<>>, prev_calls |-> <<>>]
    /\ gui_call = NoCall
    /\ gui_hist = [renders |-> 0, builds |-> 0, seen |-> NoVersion,
                   stable |-> TRUE, all_ok |-> TRUE, build_failed |-> FALSE]
    /\ frame_input \in LoopFrames
    /\ model = "None"
    /\ model_call = NoCall
    /\ box = "None"
    /\ box_call = NoCall

\* The render loop of a window: frames arrive, and the caller updates and
\* renders the GUI.
NewFrame == \E fi \in LoopFrames : new_frame(fi)

Update ==
    \E wants_pointer \in BOOLEAN, bump \in BOOLEAN :
        update(wants_pointer, FALSE, bump)

Render ==
    \E n \in 0..MaxMeshes : \E fail \in RenderFailures(n) : render(n, fail)

NextGUI == NewFrame \/ Update \/ Render

SpecGUI == InitGUI /\ [][NextGUI]_vars

\* GUI::new, and one frame of at most MaxEvents events.
InitInput ==
    /\ gui = [width |-> 0, height |-> 0, texture_version |-> 0,
              texture |-> NoTexture]
    /\ egui = [version |-> 0, in_frame |-> FALSE, input |-> NoInput,
               pixels_per_point |-> 10, wants_pointer |-> FALSE,
               wants_keyboard |-> FALSE, calls |-> <<>>, prev_calls |-> <<>>]
    /\ gui_call = NoCall
    /\ gui_hist = [renders |-> 0, builds |-> 0, seen |-> NoVersion,
                   stable |-> TRUE, all_ok |-> TRUE, build_failed |-> FALSE]
    /\ frame_input \in Frames(MaxEvents)
    /\ model = "None"
    /\ model_call = NoCall
    /\ box = "None"
    /\ box_call = NoCall

\* The frame is handed to update and then to the later consumers of the
\* same frame (update again among them).
UpdateFrame ==
    \E wants_pointer \in BOOLEAN, wants_keyboard \in BOOLEAN :
        update(wants_pointer, wants_keyboard, FALSE)

\* The frame after it arrives: the same window, and no event.
FollowingFrame ==
    /\ gui_call.op = "update"
    /\ frame_input.events # <<>>
    /\ new_frame([frame_input EXCEPT !.events = <<>>])

NextInput == UpdateFrame \/ FollowingFrame

SpecInput == InitInput /\ [][NextInput]_vars

\* ------------------------------------------------------------------------
\* Vectors, matrices and boxes (cgmath and core, as model.rs and
\* bounding_box.rs use them)
\* ------------------------------------------------------------------------

Min2(a, b) == IF a <= b THEN a ELSE b
Max2(a, b) == IF a >= b THEN a ELSE b

RECURSIVE SeqMin(_)
SeqMin(s) == IF Len(s) = 1 THEN s[1] ELSE Min2(s[1], SeqMin(Tail(s)))

RECURSIVE SeqMax(_)
SeqMax(s) == IF Len(s) = 1 THEN s[1] ELSE Max2(s[1], SeqMax(Tail(s)))

\* Mat4, indexed [row][column].
Identity4 == [r \in 1..4 |-> [c \in 1..4 |-> IF r = c THEN 1 ELSE 0]]

\* Mat4 * Mat4
MatMul(a, b) ==
    [r \in 1..4 |-> [c \in 1..4 |->
        a[r][1] * b[1][c] + a[r][2] * b[2][c]
          + a[r][3] * b[3][c] + a[r][4] * b[4][c]]]

\* Mat4::from_translation
FromTranslation(v) ==
    <<  <<1, 0, 0, v[1]>>,
        <<0, 1, 0, v[2]>>,
        <<0, 0, 1, v[3]>>,
        <<0, 0, 0, 1>>  >>

\* Mat4::from_nonuniform_scale
FromNonuniformScale(x, y, z) ==
    <<  <<x, 0, 0, 0>>,
        <<0, y, 0, 0>>,
        <<0, 0, z, 0>>,
        <<0, 0, 0, 1>>  >>

\* Mat4::from_angle_z(degrees(90.0)): x -> y, y -> -x
FromAngleZ90 ==
    <<  <<0, -1, 0, 0>>,
        <<1,  0, 0, 0>>,
        <<0,  0, 1, 0>>,
        <<0,  0, 0, 1>>  >>

\* Mat4::from_angle_y(degrees(-90.0)): x -> z, z -> -x
FromAngleYMinus90 ==
    <<  <<0, 0, -1, 0>>,
        <<0, 1,  0, 0>>,
        <<1, 0,  0, 0>>,
        <<0, 0,  0, 1>>  >>

\* Matrix4::transpose
Transpose(m) == [r \in 1..4 |-> [c \in 1..4 |-> m[c][r]]]

\* The indices 1..4 without k, in order.
Without(k) == SelectSeq(<<1, 2, 3, 4>>, LAMBDA i : i # k)

\* The determinant of m with row r and column c struck out.
Minor(m, r, c) ==
    LET rs == Without(r)
        cs == Without(c)
        a(i, j) == m[rs[i]][cs[j]]
    IN  a(1, 1) * (a(2, 2) * a(3, 3) - a(2, 3) * a(3, 2))
          - a(1, 2) * (a(2, 1) * a(3, 3) - a(2, 3) * a(3, 1))
          + a(1, 3) * (a(2, 1) * a(3, 2) - a(2, 2) * a(3, 1))

Sign(i, j) == IF (i + j) % 2 = 0 THEN 1 ELSE -1

\* Matrix4::determinant
Determinant(m) ==
    m[1][1] * Minor(m, 1, 1) - m[1][2] * Minor(m, 1, 2)
      + m[1][3] * Minor(m, 1, 3) - m[1][4] * Minor(m, 1, 4)

\* A matrix of fractions with one denominator: num / den.
Rational(num, den) ==
    IF den < 0
    THEN [num |-> [r \in 1..4 |-> [c \in 1..4 |-> -num[r][c]]], den |-> -den]
    ELSE [num |-> num, den |-> den]

\* An invert that answers Some for every matrix.
InvertUnchecked(m) ==
    [some |-> TRUE,
     value |-> [num |-> [r \in 1..4 |-> [c \in 1..4 |->
                           Sign(r, c) * Minor(m, c, r)]],
                den |-> 1]]

\* SquareMatrix::invert: None for determinant 0, else adjugate / determinant.
Invert(m) ==
    LET det == Determinant(m)
    IN  IF det = 0 THEN [some |-> FALSE]
        ELSE [some |-> TRUE,
              value |-> Rational([r \in 1..4 |-> [c \in 1..4 |->
                                    Sign(r, c) * Minor(m, c, r)]], det)]

\* transpose of a matrix of fractions
TransposeRational(q) == [num |-> Transpose(q.num), den |-> q.den]

\* (transformation * position.extend(1.0)).truncate()
TransformPoint(m, p) ==
    [r \in 1..3 |-> m[r][1] * p[1] + m[r][2] * p[2] + m[r][3] * p[3] + m[r][4]]

\* The box around a non-empty sequence of points.
BoxAround(points) ==
    [min |-> [k \in 1..3 |-> SeqMin([i \in 1..Len(points) |-> points[i][k]])],
     max |-> [k \in 1..3 |-> SeqMax([i \in 1..Len(points) |-> points[i][k]])]]

\* CPUMesh::compute_aabb
compute_aabb(positions) == BoxAround(positions)

\* The 8 corners of a box.
Corners(aabb) ==
    LET pick(k, hi) == IF hi THEN aabb.max[k] ELSE aabb.min[k]
    IN  [i \in 1..8 |->
            <<pick(1, (i - 1) % 2 = 1),
              pick(2, ((i - 1) \div 2) % 2 = 1),
              pick(3, ((i - 1) \div 4) % 2 = 1)>>]

\* AxisAlignedBoundingBox::transform: the box around the 8 transformed corners.
AabbTransform(aabb, m) ==
    BoxAround([i \in 1..8 |-> TransformPoint(m, Corners(aabb)[i])])

\* AxisAlignedBoundingBox::size
AabbSize(aabb) == [k \in 1..3 |-> aabb.max[k] - aabb.min[k]]

\* ------------------------------------------------------------------------
\* Model (model.rs)
\* ------------------------------------------------------------------------

Culls == {"None", "Back", "Front"}

\* WriteMask::COLOR_AND_DEPTH, WriteMask::COLOR, WriteMask::DEPTH
WriteMaskColorAndDepth ==
    [red |-> TRUE, green |-> TRUE, blue |-> TRUE, alpha |-> TRUE, depth |-> TRUE]
WriteMaskColor ==
    [red |-> TRUE, green |-> TRUE, blue |-> TRUE, alpha |-> TRUE, depth |-> FALSE]
WriteMaskDepth ==
    [red |-> FALSE, green |-> FALSE, blue |-> FALSE, alpha |-> FALSE, depth |-> TRUE]

\* RenderStates::default(): no culling, no blending, depth test and write.
DefaultRenderStates ==
    [cull |-> "None", write_mask |-> WriteMaskColorAndDepth,
     blend |-> "Disabled", depth_test |-> "Less"]

\* The default transparent_render_states of ColorMaterial and PhysicalMaterial.
TransparentRenderStates ==
    [DefaultRenderStates EXCEPT !.write_mask = WriteMaskColor,
                                !.blend = "TRANSPARENCY"]

\* Alpha values of a color: opaque and not.
Alphas == {255, 128}

\* ColorMaterial::render_states and PhysicalMaterial::render_states, of a
\* material with default render states whose two cull fields were set to cull.
MaterialRenderStates(alpha, cull) ==
    IF alpha # 255
    THEN [TransparentRenderStates EXCEPT !.cull = cull]
    ELSE [DefaultRenderStates EXCEPT !.cull = cull]

\* The materials a caller supplies: their render_states() and is_transparent().
Materials ==
    { [render_states |-> [DefaultRenderStates EXCEPT !.cull = "Back"],
       transparent |-> FALSE],
      [render_states |-> TransparentRenderStates, transparent |-> TRUE] }

\* The CPU meshes a model is built from.
Meshes ==
    { [positions |-> << <<0, 0, 0>>, <<2, 4, 6>>, <<1, 1, 1>> >>,
       has_colors |-> FALSE],
      [positions |-> << <<-1, 0, 1>>, <<1, 2, 1>>, <<0, -1, 3>> >>,
       has_colors |-> TRUE] }

\* The matrices a caller sets: invertible ones and two singular ones.
Transformations ==
    { Identity4,
      FromTranslation(<<1, -2, 0>>),
      FromNonuniformScale(2, 1, 3),
      FromAngleZ90,
      MatMul(FromTranslation(<<0, 1, 0>>), FromAngleYMinus90),
      FromNonuniformScale(1, 0, 1),
      FromNonuniformScale(0, 0, 0) }

\* Model::new
ModelNew(cpu_mesh, material) ==
    [ mesh |-> cpu_mesh,
      aabb |-> compute_aabb(cpu_mesh.positions),
      aabb_local |-> compute_aabb(cpu_mesh.positions),
      transformation |-> Identity4,
      normal_transformation |-> [num |-> Identity4, den |-> 1],
      cull |-> "None",
      material |-> material ]

\* The process has not panicked.
Alive == model_call.result # "panic"

\* set_transformation's new aabb, computed from the aabb instead of aabb_local.
TransformedAabbCompound(m) == AabbTransform(m.aabb, m.transformation)

\* set_transformation: aabb_local.clone() transformed by self.transformation.
TransformedAabb(m) == AabbTransform(m.aabb_local, m.transformation)

\* GeometryMut::set_transformation. The transformation is stored first; the
\* unwrap of a failed inversion panics there.
set_transformation(transformation) ==
    LET stored == [model EXCEPT !.transformation = transformation]
        inverse == Invert(stored.transformation)
    IN  /\ Alive
        /\ IF inverse.some
           THEN /\ model' =
                     [stored EXCEPT
                        !.normal_transformation = TransposeRational(inverse.value),
                        !.aabb = TransformedAabb(stored)]
                /\ model_call' = [op |-> "set_transformation", result |-> "Ok",
                                  transformation |-> transformation,
                                  before |-> model]
           ELSE /\ model' = stored
                /\ model_call' = [op |-> "set_transformation", result |-> "panic",
                                  transformation |-> transformation,
                                  before |-> model]
        /\ UNCHANGED <<gui_vars, box_vars>>

\* The caller assigns the public field cull.
set_cull(cull) ==
    /\ Alive
    /\ model' = [model EXCEPT !.cull = cull]
    /\ model_call' = [op |-> "set_cull", result |-> "Ok", before |-> model]
    /\ UNCHANGED <<gui_vars, box_vars>>

NoDraw == [issued |-> FALSE]

\* self.mesh.draw(render_states, program, .., viewport,
\*                Some(self.transformation), Some(self.normal_transformation))
mesh_draw(render_states, viewport) ==
    [ issued |-> TRUE,
      render_states |-> render_states,
      viewport |-> viewport,
      transformation |-> model.transformation,
      normal_transformation |-> model.normal_transformation ]

\* The steps of a render method that can return an error, in order: building
\* the material, context.program, the uniforms of light i, the uniforms of
\* the material (or the texture), and mesh.draw.
Failures ==
    {<<"none", 0>>, <<"program", 0>>, <<"uniforms", 0>>, <<"draw", 0>>}

\* A render method's call: mesh.draw is reached unless an earlier step failed.
DrawCall(op, via, material_states, render_states, viewport, fail) ==
    [ op |-> op,
      via |-> via,
      material_states |-> material_states,
      fail |-> fail,
      result |-> IF fail[1] = "none" THEN "Ok" ELSE "Err",
      draw |-> IF fail[1] \in {"none", "draw"}
               THEN mesh_draw(render_states, viewport)
               ELSE NoDraw,
      before |-> model ]

\* render_forward with the cull assignment render_deferred makes.
forward_call_cull_override(op, material_states, fail) ==
    DrawCall(op, "render_forward", material_states,
             [material_states EXCEPT !.cull = model.cull], "camera", fail)

\* Shadable::render_forward, called as op: the material's render states as
\* they are.
forward_call(op, material_states, fail) ==
    DrawCall(op, "render_forward", material_states, material_states,
             "camera", fail)

\* Shadable::render_deferred, called as op: the material's render states
\* with cull set to self.cull.
deferred_call(op, material_states, viewport, fail) ==
    DrawCall(op, "render_deferred", material_states,
             [material_states EXCEPT !.cull = model.cull], viewport, fail)

render_forward(material, fail) ==
    /\ Alive
    /\ model_call' = forward_call("render_forward", material.render_states, fail)
    /\ UNCHANGED <<model, gui_vars, box_vars>>

\* render_deferred that keeps the merged cull in the model's material.
render_deferred_storing(material, viewport, fail) ==
    /\ Alive
    /\ model_call' =
          deferred_call("render_deferred", material.render_states, viewport, fail)
    /\ model' = [model EXCEPT !.material.render_states.cull = model.cull]
    /\ UNCHANGED <<gui_vars, box_vars>>

render_deferred(material, viewport, fail) ==
    /\ Alive
    /\ model_call' =
          deferred_call("render_deferred", material.render_states, viewport, fail)
    /\ UNCHANGED <<model, gui_vars, box_vars>>

\* Object::render: render_forward with the model's own material.
object_render(fail) ==
    /\ Alive
    /\ model_call' = forward_call("render", model.material.render_states, fail)
    /\ UNCHANGED <<model, gui_vars, box_vars>>

\* render_color: a default ColorMaterial with both cull fields set.
render_color(fail) ==
    /\ Alive
    /\ model_call' =
          forward_call("render_color", MaterialRenderStates(255, model.cull), fail)
    /\ UNCHANGED <<model, gui_vars, box_vars>>

\* render_with_color: a ColorMaterial of that color with both cull fields set.
render_with_color(alpha, fail) ==
    /\ Alive
    /\ model_call' =
          forward_call("render_with_color",
                       MaterialRenderStates(alpha, model.cull), fail)
            @@ [transparent |-> alpha # 255]
    /\ UNCHANGED <<model, gui_vars, box_vars>>

\* render_uvs: a default UVMaterial with cull set.
render_uvs(fail) ==
    /\ Alive
    /\ model_call' =
          forward_call("render_uvs",
                       [DefaultRenderStates EXCEPT !.cull = model.cull], fail)
    /\ UNCHANGED <<model, gui_vars, box_vars>>

\* render_normals: a default NormalMaterial with cull set.
render_normals(fail) ==
    /\ Alive
    /\ model_call' =
          forward_call("render_normals",
                       [DefaultRenderStates EXCEPT !.cull = model.cull], fail)
    /\ UNCHANGED <<model, gui_vars, box_vars>>

\* render_with_texture's render states, with the two branches swapped.
TextureRenderStatesSwapped(transparent, cull) ==
    IF ~transparent
    THEN [DefaultRenderStates EXCEPT !.cull = cull,
                                     !.write_mask = WriteMaskColor,
                                     !.blend = "TRANSPARENCY"]
    ELSE [DefaultRenderStates EXCEPT !.cull = cull]

\* render_with_texture's render states.
TextureRenderStates(transparent, cull) ==
    IF transparent
    THEN [DefaultRenderStates EXCEPT !.cull = cull,
                                     !.write_mask = WriteMaskColor,
                                     !.blend = "TRANSPARENCY"]
    ELSE [DefaultRenderStates EXCEPT !.cull = cull]

\* render_with_texture: its own program and draw; transparent is
\* texture.is_transparent().
render_with_texture(transparent, fail) ==
    LET render_states == TextureRenderStates(transparent, model.cull)
    IN  /\ Alive
        /\ model_call' =
              DrawCall("render_with_texture", "render_with_texture",
                       render_states, render_states, "camera", fail)
                @@ [transparent |-> transparent]
        /\ UNCHANGED <<model, gui_vars, box_vars>>

\* render_depth_to_red: a DepthMaterial writing red and depth, with cull set.
render_depth_to_red(fail) ==
    /\ Alive
    /\ model_call' =
          forward_call("render_depth_to_red",
                       [DefaultRenderStates EXCEPT
                          !.write_mask = [WriteMaskDepth EXCEPT !.red = TRUE],
                          !.cull = model.cull], fail)
    /\ UNCHANGED <<model, gui_vars, box_vars>>

\* render_depth: a DepthMaterial writing depth only, with cull set.
render_depth(fail) ==
    /\ Alive
    /\ model_call' =
          forward_call("render_depth",
                       [DefaultRenderStates EXCEPT !.write_mask = WriteMaskDepth,
                                                   !.cull = model.cull], fail)
    /\ UNCHANGED <<model, gui_vars, box_vars>>

\* geometry_pass: PhysicalMaterial::new_from_material(material)?, then
\* render_deferred.
geometry_pass(alpha, viewport, fail) ==
    /\ Alive
    /\ model_call' =
          IF fail[1] = "material"
          THEN [op |-> "geometry_pass", via |-> "none", fail |-> fail,
                result |-> "Err", draw |-> NoDraw, before |-> model]
          ELSE deferred_call("geometry_pass",
                             MaterialRenderStates(alpha, "None"), viewport, fail)
    /\ UNCHANGED <<model, gui_vars, box_vars>>

\* The lights of one kind, in the order the caller gives them.
LightsOf(kind, n) == [i \in 1..n |-> <<kind, i>>]

\* render_with_lighting's lights vector with the point lights pushed before
\* the spot lights.
LightListPointFirst(ambient, directional, spot, point) ==
    (IF ambient THEN LightsOf("ambient", 1) ELSE <<>>)
        \o LightsOf("directional", directional)
        \o LightsOf("point", point)
        \o LightsOf("spot", spot)

\* render_with_lighting's lights vector: the ambient light if there is one,
\* then the directional, the spot and the point lights.
LightList(ambient, directional, spot, point) ==
    (IF ambient THEN LightsOf("ambient", 1) ELSE <<>>)
        \o LightsOf("directional", directional)
        \o LightsOf("spot", spot)
        \o LightsOf("point", point)

\* lights_fragment_shader_source: the shader source of each light of the
\* iterator, with its position in the iterator as its index.
ShaderLights(lights) ==
    [i \in 1..Len(lights) |-> [index |-> i - 1, light |-> lights[i]]]

\* lights.iter().enumerate() with light.use_uniforms(program, camera, i),
\* for the first n lights.
BoundLights(lights, n) ==
    [i \in 1..n |-> [index |-> i - 1, light |-> lights[i]]]

\* What can fail in render_with_lighting with n lights.
LightingFailures(n) ==
    Failures \cup {<<"material", 0>>} \cup {<<"light", i>> : i \in 0..(n - 1)}

\* ShadedGeometry::render_with_lighting. alpha is the albedo alpha of the
\* CPU material; ambient says whether an ambient light is given; directional,
\* spot and point are the numbers of lights of each kind.
render_with_lighting(alpha, ambient, directional, spot, point, fail) ==
    LET render_states == MaterialRenderStates(alpha, model.cull)
        lights == LightList(ambient, directional, spot, point)
        bound == CASE fail[1] \in {"material", "program"} -> 0
                   [] fail[1] = "light" -> fail[2]
                   [] OTHER -> Len(lights)
        given == [ambient |-> ambient, directional |-> directional,
                  spot |-> spot, point |-> point]
    IN  /\ Alive
        /\ model_call' =
              IF fail[1] = "material"
              THEN [op |-> "render_with_lighting", via |-> "none",
                    fail |-> fail, result |-> "Err", draw |-> NoDraw,
                    before |-> model, given |-> given,
                    shader_lights |-> <<>>, bound_lights |-> <<>>]
              ELSE DrawCall("render_with_lighting", "render_with_lighting",
                            render_states, render_states, "camera", fail)
                     @@ [given |-> given,
                         shader_lights |-> ShaderLights(lights),
                         bound_lights |-> BoundLights(lights, bound)]
        /\ UNCHANGED <<model, gui_vars, box_vars>>

\* Model::new on a CPU mesh and a material; the GUI and the box are idle.
InitModel ==
    /\ model \in {ModelNew(cpu_mesh, material) :
                     cpu_mesh \in Meshes, material \in Materials}
    /\ model_call = NoCall
    /\ gui = "None"
    /\ egui = "None"
    /\ frame_input = "None"
    /\ gui_call = NoCall
    /\ gui_hist = "None"
    /\ box = "None"
    /\ box_call = NoCall

SetTransformation == \E t \in Transformations : set_transformation(t)

SetCull == \E cull \in Culls : set_cull(cull)

RenderForward ==
    \E material \in Materials, fail \in Failures : render_forward(material, fail)

RenderDeferred ==
    \E material \in Materials, fail \in Failures :
        render_deferred(material, "viewport", fail)

ObjectRender == \E fail \in Failures : object_render(fail)

RenderColor == \E fail \in Failures : render_color(fail)

RenderWithColor ==
    \E alpha \in Alphas, fail \in Failures : render_with_color(alpha, fail)

RenderUvs == \E fail \in Failures : render_uvs(fail)

RenderNormals == \E fail \in Failures : render_normals(fail)

RenderWithTexture ==
    \E transparent \in BOOLEAN, fail \in Failures :
        render_with_texture(transparent, fail)

RenderDepthToRed == \E fail \in Failures : render_depth_to_red(fail)

RenderDepth == \E fail \in Failures : render_depth(fail)

GeometryPass ==
    \E alpha \in Alphas, fail \in Failures \cup {<<"material", 0>>} :
        geometry_pass(alpha, "viewport", fail)

RenderWithLighting ==
    \E alpha \in Alphas, ambient \in BOOLEAN,
       directional \in 0..MaxLights, spot \in 0..MaxLights,
       point \in 0..MaxLights :
        /\ directional + spot + point <= MaxLights
        /\ \E fail \in LightingFailures(
                          (IF ambient THEN 1 ELSE 0) + directional + spot + point) :
              render_with_lighting(alpha, ambient, directional, spot, point, fail)

\* render_with_lighting with an ambient and a directional light.
RenderLit ==
    \E alpha \in Alphas, fail \in LightingFailures(2) :
        render_with_lighting(alpha, TRUE, 1, 0, 0, fail)

NextModel ==
    \/ SetTransformation
    \/ SetCull
    \/ RenderForward
    \/ RenderDeferred
    \/ ObjectRender
    \/ RenderColor
    \/ RenderWithColor
    \/ RenderUvs
    \/ RenderNormals
    \/ RenderWithTexture
    \/ RenderDepthToRed
    \/ RenderDepth
    \/ GeometryPass
    \/ RenderLit

SpecModel == InitModel /\ [][NextModel]_vars

\* Model::new with an opaque material, for the calls of render_with_lighting.
InitLights ==
    /\ model \in {ModelNew(cpu_mesh, material) :
                     cpu_mesh \in Meshes,
                     material \in {m \in Materials : ~m.transparent}}
    /\ model_call = NoCall
    /\ gui = "None"
    /\ egui = "None"
    /\ frame_input = "None"
    /\ gui_call = NoCall
    /\ gui_hist = "None"
    /\ box = "None"
    /\ box_call = NoCall

NextLights == SetCull \/ RenderWithLighting

SpecLights == InitLights /\ [][NextLights]_vars

\* ------------------------------------------------------------------------
\* BoundingBox (bounding_box.rs)
\* ------------------------------------------------------------------------

\* The instance matrices are kept in hundredths (every entry times 100), so
\* that the thickness 0.02 * size is a whole number.

\* 0.02 * size.x.max(size.y).max(size.z), in hundredths
Thickness(size) == 2 * Max2(Max2(size[1], size[2]), size[3])

\* Mat4::from_nonuniform_scale(length, thickness, thickness), in hundredths
EdgeScale(length, thickness) ==
    <<  <<100 * length, 0, 0, 0>>,
        <<0, thickness, 0, 0>>,
        <<0, 0, thickness, 0>>,
        <<0, 0, 0, 100>>  >>

\* new_with_material's transformations with the second edge along x placed
\* where the fourth is.
BoxTransformationsRepeated(aabb) ==
    LET max == aabb.max
        min == aabb.min
        size == AabbSize(aabb)
        thickness == Thickness(size)
        along_x(at) == MatMul(FromTranslation(at), EdgeScale(size[1], thickness))
        along_y(at) ==
            MatMul(MatMul(FromTranslation(at), FromAngleZ90),
                   EdgeScale(size[2], thickness))
        along_z(at) ==
            MatMul(MatMul(FromTranslation(at), FromAngleYMinus90),
                   EdgeScale(size[3], thickness))
    IN  <<  along_x(min),
            along_x(<<min[1], max[2], min[3]>>),
            along_x(<<min[1], min[2], max[3]>>),
            along_x(<<min[1], max[2], min[3]>>),
            along_y(min),
            along_y(<<max[1], min[2], max[3]>>),
            along_y(<<min[1], min[2], max[3]>>),
            along_y(<<max[1], min[2], min[3]>>),
            along_z(min),
            along_z(<<max[1], max[2], min[3]>>),
            along_z(<<min[1], max[2], min[3]>>),
            along_z(<<max[1], min[2], min[3]>>)  >>

\* new_with_material: the 12 instance transformations.
BoxTransformations(aabb) ==
    LET max == aabb.max
        min == aabb.min
        size == AabbSize(aabb)
        thickness == Thickness(size)
        along_x(at) == MatMul(FromTranslation(at), EdgeScale(size[1], thickness))
        along_y(at) ==
            MatMul(MatMul(FromTranslation(at), FromAngleZ90),
                   EdgeScale(size[2], thickness))
        along_z(at) ==
            MatMul(MatMul(FromTranslation(at), FromAngleYMinus90),
                   EdgeScale(size[3], thickness))
    IN  <<  along_x(min),
            along_x(<<min[1], max[2], max[3]>>),
            along_x(<<min[1], min[2], max[3]>>),
            along_x(<<min[1], max[2], min[3]>>),
            along_y(min),
            along_y(<<max[1], min[2], max[3]>>),
            along_y(<<min[1], min[2], max[3]>>),
            along_y(<<max[1], min[2], min[3]>>),
            along_z(min),
            along_z(<<max[1], max[2], min[3]>>),
            along_z(<<min[1], max[2], min[3]>>),
            along_z(<<max[1], min[2], min[3]>>)  >>

\* The boxes a caller passes: two corners, every extent up to MaxExtent.
Aabbs ==
    { [min |-> min, max |-> [k \in 1..3 |-> min[k] + size[k]]] :
        min \in {<<0, 0, 0>>, <<-1, 2, 1>>},
        size \in [1..3 -> 0..MaxExtent] }

NoBox == [exists |-> FALSE]

\* BoundingBox::new_with_material
new_with_material(aabb, material) ==
    /\ ~box.exists
    /\ box' = [ exists |-> TRUE,
                model |-> [ instances |-> BoxTransformations(aabb),
                            material |-> material ],
                aabb |-> aabb ]
    /\ box_call' = [op |-> "new_with_material", passed |-> aabb,
                    result |-> "Ok"]
    /\ UNCHANGED <<gui_vars, model_vars>>

\* Shadable::render_with_material: the instanced model's render_with_material.
box_render_with_material(material, ok) ==
    /\ box.exists
    /\ box_call' = [op |-> "render_with_material",
                    passed |-> box_call.passed,
                    target |-> "model.render_with_material",
                    material |-> material,
                    result |-> IF ok THEN "Ok" ELSE "Err"]
    /\ UNCHANGED <<box, gui_vars, model_vars>>

\* Shadable::render_forward: self.render_with_material.
box_render_forward(material, ok) ==
    /\ box.exists
    /\ box_call' = [op |-> "render_forward",
                    passed |-> box_call.passed,
                    target |-> "model.render_with_material",
                    material |-> material,
                    result |-> IF ok THEN "Ok" ELSE "Err"]
    /\ UNCHANGED <<box, gui_vars, model_vars>>

\* Shadable::render_deferred: the instanced model's render_deferred.
box_render_deferred(material, ok) ==
    /\ box.exists
    /\ box_call' = [op |-> "render_deferred",
                    passed |-> box_call.passed,
                    target |-> "model.render_deferred",
                    material |-> material,
                    result |-> IF ok THEN "Ok" ELSE "Err"]
    /\ UNCHANGED <<box, gui_vars, model_vars>>

\* Object::render: the instanced model's render, with its own material.
box_render(ok) ==
    /\ box.exists
    /\ box_call' = [op |-> "render",
                    passed |-> box_call.passed,
                    target |-> "model.render",
                    material |-> box.model.material,
                    result |-> IF ok THEN "Ok" ELSE "Err"]
    /\ UNCHANGED <<box, gui_vars, model_vars>>

\* An is_transparent that answers for the material of the box.
box_is_transparent_of_material == box.model.material.transparent

\* Geometry::aabb
box_aabb == box.aabb

\* Geometry::transformation
box_transformation == Identity4

\* Object::is_transparent
box_is_transparent == FALSE

\* No box built yet; the GUI and the model are idle.
InitBox ==
    /\ box = NoBox
    /\ box_call = NoCall
    /\ gui = "None"
    /\ egui = "None"
    /\ frame_input = "None"
    /\ gui_call = NoCall
    /\ gui_hist = "None"
    /\ model = "None"
    /\ model_call = NoCall

BoxNew ==
    \E aabb \in Aabbs, material \in Materials : new_with_material(aabb, material)

BoxRenderWithMaterial ==
    \E material \in Materials, ok \in BOOLEAN :
        box_render_with_material(material, ok)

BoxRenderForward ==
    \E material \in Materials, ok \in BOOLEAN : box_render_forward(material, ok)

BoxRenderDeferred ==
    \E material \in Materials, ok \in BOOLEAN : box_render_deferred(material, ok)

BoxRender == \E ok \in BOOLEAN : box_render(ok)

NextBox ==
    \/ BoxNew
    \/ BoxRenderWithMaterial
    \/ BoxRenderForward
    \/ BoxRenderDeferred
    \/ BoxRender

SpecBox == InitBox /\ [][NextBox]_vars

\* ------------------------------------------------------------------------
\* Claims about the GUI
\* ------------------------------------------------------------------------

\* C1: over render calls that all succeed, a render call rebuilds the atlas
\* texture if and only if it is the first render or the atlas version
\* differs from the version the previous render saw; hence the texture is
\* built exactly once while the version stays unchanged.
C1_AtlasRebuiltIffVersionChanged ==
    (gui_call.op = "render" /\ gui_hist.all_ok) =>
        /\ gui_call.rebuilt <=>
              (gui_call.prev_seen = NoVersion
                 \/ gui_call.seen # gui_call.prev_seen)
        /\ gui_hist.stable => gui_hist.builds = 1

\* Three successful renders: the version changed once, the texture was
\* built twice, and the last render reused it.
C1_Witness ==
    /\ gui_call.op = "render"
    /\ gui_hist.all_ok
    /\ gui_hist.renders = 3
    /\ gui_hist.builds = 2
    /\ ~gui_call.rebuilt

\* Event i of the frame was consumed by the last update: it carries a
\* handled flag, the flag is set, and the GUI wanted events of its kind.
ConsumedByUpdate(i) ==
    LET e == gui_call.events_after[i]
    IN  /\ e.kind \in HandledKinds
        /\ e.handled
        /\ \/ e.kind \in PointerKinds /\ gui_call.wants_pointer
           \/ e.kind = "Key" /\ gui_call.wants_keyboard

\* C2: update returns changed = true if and only if it consumed (marked
\* handled) at least one event of the frame.
C2_ChangedIffConsumed ==
    gui_call.op = "update" =>
        (gui_call.changed <=>
            \E i \in 1..Len(gui_call.events_after) : ConsumedByUpdate(i))

\* C3: after update every pointer event is handled if the GUI wants pointer
\* input, every key event is handled if it wants keyboard input, and no
\* event that was handled before the call is unhandled after it; the
\* events themselves stay in place.
C3_HandledAfterUpdate ==
    gui_call.op = "update" =>
        /\ Len(gui_call.events_after) = Len(gui_call.events_before)
        /\ \A i \in 1..Len(gui_call.events_after) :
              LET b == gui_call.events_before[i]
                  a == gui_call.events_after[i]
              IN  /\ a.kind = b.kind
                  /\ (gui_call.wants_pointer /\ b.kind \in PointerKinds)
                        => a.handled
                  /\ (gui_call.wants_keyboard /\ b.kind = "Key") => a.handled
                  /\ (b.kind \in HandledKinds /\ b.handled) => a.handled

\* An update that wanted pointer input only, on a frame with an unhandled
\* wheel event (now handled) and a key event handled by an earlier consumer.
C3_Witness ==
    /\ gui_call.op = "update"
    /\ gui_call.wants_pointer /\ ~gui_call.wants_keyboard
    /\ \E i, j \in 1..Len(gui_call.events_after) :
          /\ gui_call.events_before[i].kind = "MouseWheel"
          /\ ~gui_call.events_before[i].handled
          /\ gui_call.events_after[i].handled
          /\ gui_call.events_before[j].kind = "Key"
          /\ gui_call.events_before[j].handled
          /\ gui_call.events_after[j].handled

\* The frame call of the context that follows frame call c in a cycle.
NextFrameCall(c) ==
    CASE c = "begin_frame" -> "callback"
      [] c = "callback" -> "end_frame"
      [] OTHER -> "begin_frame"

\* The egui event an event of the given kind is translated to.
Translation(kind) ==
    CASE kind = "Key" -> "Key"
      [] kind = "MouseClick" -> "PointerButton"
      [] kind = "MouseMotion" -> "PointerMoved"
      [] kind = "Text" -> "Text"
      [] OTHER -> "PointerGone"

\* Event i of the frame was marked handled by the last update.
MarkedByUpdate(i) ==
    /\ gui_call.events_before[i].kind \in HandledKinds
    /\ ~gui_call.events_before[i].handled
    /\ gui_call.events_after[i].handled

Forwarded(e) ==
    \/ e.kind \in {"Text", "MouseLeave"}
    \/ e.kind \in {"Key", "MouseClick", "MouseMotion"} /\ ~e.handled

\* The deltas of the wheel events of a frame that are not handled yet.
UnhandledDeltas(events) ==
    { events[i].delta : i \in { k \in 1..Len(events) :
                                  /\ events[k].kind = "MouseWheel"
                                  /\ ~events[k].handled } }

\* C12: the events update feeds to the GUI logic are the translations, in
\* frame order, of the frame's Text and MouseLeave events and of its Key,
\* MouseClick and MouseMotion events not handled before the call; a handled
\* MouseWheel contributes no scroll; and building the input state changes
\* no event of the frame (an update of a GUI that wants no input leaves the
\* frame as it was).
C12_TranslationKeepsOrder ==
    gui_call.op = "update" =>
        LET before == gui_call.events_before
            kept == SelectSeq(before, Forwarded)
        IN  /\ egui.input.events
                 = [j \in 1..Len(kept) |-> Translation(kept[j].kind)]
            /\ egui.input.scroll_delta \in {0} \cup UnhandledDeltas(before)
            /\ UnhandledDeltas(before) = {} => egui.input.scroll_delta = 0
            /\ (~gui_call.wants_pointer /\ ~gui_call.wants_keyboard)
                  => gui_call.events_after = before

\* An update on a frame of a MouseClick handled by an earlier consumer and a
\* Text event: only the text reaches the GUI logic, and the frame is as it
\* was.
C12_Witness ==
    /\ gui_call.op = "update"
    /\ ~gui_call.wants_pointer /\ ~gui_call.wants_keyboard
    /\ Len(gui_call.events_before) = 2
    /\ gui_call.events_before[1].kind = "MouseClick"
    /\ gui_call.events_before[1].handled
    /\ gui_call.events_before[2].kind = "Text"
    /\ egui.input.events = <<"Text">>
    /\ frame_input.events = gui_call.events_before

\* The window size the most recent update stored (0 x 0 from GUI::new).
StoredSize ==
    IF egui.input = NoInput THEN <<0, 0>> ELSE egui.input.screen_rect

\* C13: render issues one draw per clipped mesh, in list order, all with
\* the same atlas texture and the window size the most recent update
\* stored; if painting mesh k fails, render returns the error at once:
\* meshes 1..k-1 were drawn, and mesh k and those after it were not.
C13_OneDrawPerMesh ==
    (gui_call.op = "render" /\ gui_call.failed[1] # "texture") =>
        LET draws == gui_call.draws
            drawn == IF gui_call.failed[1] = "mesh"
                     THEN gui_call.failed[2] - 1
                     ELSE gui_call.meshes
        IN  /\ gui_call.result = "Ok" <=> gui_call.failed[1] = "none"
            /\ Len(draws) = drawn
            /\ \A i \in 1..Len(draws) :
                  /\ draws[i].mesh = i
                  /\ draws[i].texture = gui.texture
                  /\ draws[i].texture # NoTexture
                  /\ draws[i].screen_size = StoredSize

\* A render of two meshes after an update whose second paint_mesh failed:
\* one draw was issued, with the window size of the update.
C13_Witness ==
    /\ gui_call.op = "render"
    /\ gui_call.result = "Err"
    /\ gui_call.meshes = 2
    /\ gui_call.failed = <<"mesh", 2>>
    /\ Len(gui_call.draws) = 1
    /\ gui_call.draws[1].screen_size = <<8, 6>>
    /\ frame_input.window_width # 8

\* C14: after a render that gets past the atlas step the cached texture is
\* present and texture_version is the atlas version of the GUI logic, on
\* the first render with atlas version 0 too; a render whose texture build
\* fails returns the error without a draw and leaves texture and
\* texture_version as they were, so that the next render rebuilds.
C14_TextureFollowsAtlas ==
    /\ (gui_call.op = "render" /\ gui_call.failed[1] # "texture") =>
          /\ gui.texture # NoTexture
          /\ gui.texture = SomeTexture(gui_call.seen)
          /\ gui.texture_version = gui_call.seen
          /\ gui_call.gui_before.texture = NoTexture => gui_call.rebuilt
    /\ (gui_call.op = "render" /\ gui_call.failed[1] = "texture") =>
          /\ gui_call.result = "Err"
          /\ gui_call.draws = <<>>
          /\ gui.texture = gui_call.gui_before.texture
          /\ gui.texture_version = gui_call.gui_before.texture_version
    /\ gui_hist.build_failed => NeedsRebuild(gui, egui.version)

\* A first render at atlas version 0 failed to build the texture, an update
\* followed, and the second render built it: the texture is present, at the
\* version the GUI was created with.
C14_Witness ==
    /\ gui_call.op = "render"
    /\ gui_call.result = "Ok"
    /\ gui_hist.renders = 2
    /\ ~gui_hist.all_ok
    /\ gui_call.gui_before.texture = NoTexture
    /\ gui_call.gui_before.texture_version = 0
    /\ gui_call.seen = 0
    /\ gui_call.rebuilt
    /\ gui.texture = SomeTexture(0)

\* The whole part of a pixel ratio given in tenths.
Trunc(tenths) == CHOOSE k \in 0..tenths : 10 * k <= tenths /\ tenths < 10 * (k + 1)

\* C15: the viewport of every GUI draw is window_width * trunc(ratio) by
\* window_height * trunc(ratio), the pixel ratio being truncated before the
\* multiplication: a ratio in [1, 2) gives the logical size, and a ratio
\* below 1 a 0 x 0 viewport.
C15_ViewportTruncatesRatio ==
    gui_call.op = "render" =>
        \A i \in 1..Len(gui_call.draws) :
            LET draw == gui_call.draws[i]
                ratio == egui.pixels_per_point
            IN  /\ draw.viewport.width = StoredSize[1] * Trunc(ratio)
                /\ draw.viewport.height = StoredSize[2] * Trunc(ratio)
                /\ (10 <= ratio /\ ratio < 20) =>
                      /\ draw.viewport.width = StoredSize[1]
                      /\ draw.viewport.height = StoredSize[2]
                /\ ratio < 10 =>
                      /\ draw.viewport.width = 0
                      /\ draw.viewport.height = 0

\* A draw of the 4 x 3 window at pixel ratio 1.5: its viewport is 4 x 3.
C15_Witness ==
    /\ gui_call.op = "render"
    /\ Len(gui_call.draws) >= 1
    /\ egui.pixels_per_point = 15
    /\ gui_call.draws[1].screen_size = <<4, 3>>
    /\ gui_call.draws[1].viewport = [width |-> 4, height |-> 3]

\* The largest index of a set of indices.
LastOf(S) == CHOOSE i \in S : \A j \in S : j <= i

\* C16: the scroll delta of a frame's input state is the delta of the last
\* unhandled MouseWheel event of the frame (0 if there is none; earlier
\* wheel events are overwritten, not added), and its modifier state is that
\* of the last ModifiersChange event of the frame, or all released if the
\* frame has none: it is not carried over from the frame before.
C16_LastWheelAndModifiers ==
    gui_call.op = "update" =>
        LET before == gui_call.events_before
            wheels == { i \in 1..Len(before) :
                          before[i].kind = "MouseWheel" /\ ~before[i].handled }
            changes == { i \in 1..Len(before) :
                           before[i].kind = "ModifiersChange" }
        IN  /\ egui.input.scroll_delta
                 = IF wheels = {} THEN 0 ELSE before[LastOf(wheels)].delta
            /\ egui.input.modifiers
                 = IF changes = {} THEN FALSE
                   ELSE before[LastOf(changes)].modifiers = "Pressed"

\* The frame before left the modifiers pressed; this frame has no event,
\* and its input state has the modifiers released.
C16_Witness ==
    /\ gui_call.op = "update"
    /\ gui_call.prev_modifiers
    /\ gui_call.events_before = <<>>
    /\ ~egui.input.modifiers
    /\ egui.input.scroll_delta = 0

\* ------------------------------------------------------------------------
\* Claims about the Model
\* ------------------------------------------------------------------------

RenderOps ==
    { "render", "render_forward", "render_deferred", "render_with_lighting",
      "geometry_pass", "render_color", "render_with_color", "render_uvs",
      "render_normals", "render_with_texture", "render_depth_to_red",
      "render_depth" }

\* C4: after Model::new and any set_transformation calls with invertible
\* matrices, the world AABB is the local AABB transformed by the stored
\* transformation (so transformations do not compound), the local AABB is
\* the one computed from the mesh at construction, and under the identity
\* the world AABB equals the local AABB.
C4_WorldAabbFollowsTransformation ==
    Alive =>
        /\ model.aabb = AabbTransform(model.aabb_local, model.transformation)
        /\ model.aabb_local = compute_aabb(model.mesh.positions)
        /\ model.transformation = Identity4 => model.aabb = model.aabb_local

\* A second non-identity transformation was set after a first, different one.
C4_Witness ==
    /\ model_call.op = "set_transformation"
    /\ model_call.result = "Ok"
    /\ model_call.before.transformation # Identity4
    /\ model.transformation \notin {Identity4, model_call.before.transformation}
    /\ model.aabb \notin {model.aabb_local, model_call.before.aabb}

\* C5 as claimed: set_transformation with a singular matrix is reported to
\* the caller as an InvalidTransformError and does not end the process.
C5_SingularReportedAsError ==
    (model_call.op = "set_transformation"
       /\ Determinant(model_call.transformation) = 0)
        => model_call.result = "InvalidTransformError"

\* C5 as amended: set_transformation returns no error value; with a singular
\* matrix the unwrap of the failed inversion panics, after the matrix was
\* stored and before the normal transformation and the world AABB are
\* recomputed; with an invertible matrix it returns normally.
C5_SingularPanics ==
    model_call.op = "set_transformation" =>
        /\ model_call.result =
              (IF Determinant(model_call.transformation) = 0
               THEN "panic" ELSE "Ok")
        /\ model_call.result = "panic" =>
              /\ model.transformation = model_call.transformation
              /\ model.normal_transformation =
                    model_call.before.normal_transformation
              /\ model.aabb = model_call.before.aabb

\* A singular matrix was set on a model that had a non-identity transformation.
C5_Witness ==
    /\ model_call.op = "set_transformation"
    /\ model_call.result = "panic"
    /\ Determinant(model_call.transformation) = 0
    /\ model_call.before.transformation # Identity4

\* The last call reached mesh.draw.
DrawIssued == model_call.op \in RenderOps /\ model_call.draw.issued

\* C7 as claimed: every draw through render_forward or render_deferred uses
\* the supplied material's render states with the cull mode replaced by the
\* object's cull.
C7_CullOverrideOnEveryDraw ==
    (DrawIssued /\ model_call.via \in {"render_forward", "render_deferred"}) =>
        model_call.draw.render_states =
            [model_call.material_states EXCEPT !.cull = model.cull]

\* C7 as amended: a draw through render_deferred uses the material's render
\* states with the cull mode replaced by the object's cull; a draw through
\* render_forward uses the material's render states unchanged, cull mode
\* included.
C7_CullOverrideOnDeferredOnly ==
    DrawIssued =>
        /\ model_call.via = "render_deferred" =>
              model_call.draw.render_states =
                  [model_call.material_states EXCEPT !.cull = model.cull]
        /\ model_call.via = "render_forward" =>
              model_call.draw.render_states = model_call.material_states

\* A forward draw with a material whose cull mode is not the object's.
C7_Witness ==
    /\ DrawIssued
    /\ model_call.via = "render_forward"
    /\ model_call.material_states.cull # model.cull
    /\ model_call.draw.render_states.cull = model_call.material_states.cull

\* C8: a draw of render_with_texture (and of render_with_color) with a
\* transparent surface blends and does not write depth, one with an opaque
\* surface does not blend and writes depth; both carry the object's cull.
C8_TransparencyRenderStates ==
    (DrawIssued /\ model_call.op \in {"render_with_texture", "render_with_color"})
        => LET rs == model_call.draw.render_states
           IN  /\ rs.cull = model.cull
               /\ model_call.transparent =>
                     rs.blend # "Disabled" /\ ~rs.write_mask.depth
               /\ ~model_call.transparent =>
                     rs.blend = "Disabled" /\ rs.write_mask.depth

\* render_with_texture drew a transparent texture on a model that culls.
C8_Witness ==
    /\ DrawIssued
    /\ model_call.op = "render_with_texture"
    /\ model_call.transparent
    /\ model.cull # "None"

\* C9: a render operation, failed or not, leaves every field of the model as
\* it was, and fails by returning an error to the caller.
C9_RenderLeavesModel ==
    model_call.op \in RenderOps =>
        /\ model = model_call.before
        /\ model_call.result = (IF model_call.fail[1] = "none" THEN "Ok" ELSE "Err")

\* A failed render_deferred on a transformed, culling model.
C9_Witness ==
    /\ model_call.op = "render_deferred"
    /\ model_call.result = "Err"
    /\ model.transformation # Identity4
    /\ model.cull # model.material.render_states.cull

LightRank(light) ==
    CASE light[1] = "ambient" -> 0
      [] light[1] = "directional" -> 1
      [] light[1] = "spot" -> 2
      [] light[1] = "point" -> 3

\* C10: in render_with_lighting the lights get the indices 0..n-1 in the
\* order ambient, directional, spot, point (each kind in the given order),
\* in the shader as at uniform binding; without an ambient light the first
\* directional light has index 0.
C10_LightOrder ==
    (model_call.op = "render_with_lighting" /\ model_call.fail[1] # "material")
        => LET sl == model_call.shader_lights
               bl == model_call.bound_lights
               g == model_call.given
           IN  /\ Len(sl) = (IF g.ambient THEN 1 ELSE 0)
                              + g.directional + g.spot + g.point
               /\ \A i \in 1..Len(sl) : sl[i].index = i - 1
               /\ \A i, j \in 1..Len(sl) :
                     i < j =>
                        \/ LightRank(sl[i].light) < LightRank(sl[j].light)
                        \/ /\ sl[i].light[1] = sl[j].light[1]
                           /\ sl[i].light[2] < sl[j].light[2]
               /\ Len(bl) <= Len(sl)
               /\ \A i \in 1..Len(bl) : bl[i] = sl[i]
               /\ model_call.fail[1] \in {"none", "uniforms", "draw"} => bl = sl
               /\ (~g.ambient /\ g.directional > 0) =>
                     sl[1] = [index |-> 0, light |-> <<"directional", 1>>]

\* A successful call with an ambient, a spot and a point light.
C10_Witness ==
    /\ model_call.op = "render_with_lighting"
    /\ model_call.result = "Ok"
    /\ model_call.given = [ambient |-> TRUE, directional |-> 0,
                           spot |-> 1, point |-> 1]
    /\ model_call.bound_lights[3] = [index |-> 2, light |-> <<"point", 1>>]

\* ------------------------------------------------------------------------
\* Claims about the BoundingBox
\* ------------------------------------------------------------------------

\* The unit vector of axis k, and the translation column of a matrix.
Axis(k) == [r \in 1..3 |-> IF r = k THEN 1 ELSE 0]
Column(m, c) == [r \in 1..3 |-> m[r][c]]

\* How often each value occurs in a sequence.
Occurrences(s) ==
    [x \in {s[i] : i \in DOMAIN s} |-> Cardinality({i \in DOMAIN s : s[i] = x})]

\* The starts of the 4 edges of a box along axis k: the axis' own coordinate
\* at min, the other two at each combination of min and max; in hundredths.
EdgeStarts(aabb, k) ==
    LET o1 == (k % 3) + 1
        o2 == ((k + 1) % 3) + 1
        start(hi1, hi2) ==
            [r \in 1..3 |->
                100 * (CASE r = k -> aabb.min[k]
                         [] r = o1 -> IF hi1 THEN aabb.max[o1] ELSE aabb.min[o1]
                         [] r = o2 -> IF hi2 THEN aabb.max[o2] ELSE aabb.min[o2])]
    IN  <<start(FALSE, FALSE), start(FALSE, TRUE),
          start(TRUE, FALSE), start(TRUE, TRUE)>>

\* C6: new_with_material produces exactly 12 instance transformations with
\* thickness 2% of the largest dimension: for each axis 4 of them, each
\* mapping the unit segment along x onto an edge of the box along that axis
\* (scaled to the box's size along it) and the two cross directions onto
\* the other two axes with the thickness as length, starting at the 4
\* combinations of min/max of the other two axes, each once.
C6_TwelveEdges ==
    box.exists =>
        LET ts == box.model.instances
            size == AabbSize(box.aabb)
            thickness == 2 * SeqMax(size)
        IN  /\ Len(ts) = 12
            /\ \A k \in 1..3 :
                  LET mine == [i \in 1..4 |-> ts[4 * (k - 1) + i]]
                  IN  /\ \A i \in 1..4 :
                            /\ Column(mine[i], 1)
                                 = [r \in 1..3 |-> 100 * size[k] * Axis(k)[r]]
                            /\ \A c \in {2, 3} :
                                  \E o \in (1..3) \ {k}, sign \in {-1, 1} :
                                      Column(mine[i], c)
                                        = [r \in 1..3 |->
                                             sign * thickness * Axis(o)[r]]
                            /\ Column(mine[i], 2) # Column(mine[i], 3)
                                 \/ thickness = 0
                            /\ mine[i][4] = <<0, 0, 0, 100>>
                      /\ Occurrences([i \in 1..4 |-> Column(mine[i], 4)])
                           = Occurrences(EdgeStarts(box.aabb, k))

\* A box with three different extents, away from the origin: 12 different
\* edges.
C6_Witness ==
    /\ box.exists
    /\ box.aabb = [min |-> <<-1, 2, 1>>, max |-> <<0, 4, 4>>]
    /\ Cardinality({box.model.instances[i] : i \in 1..12}) = 12

\* The Shadable and Object render operations of a box.
BoxRenderOps ==
    {"render_with_material", "render_forward", "render_deferred", "render"}

\* C17: in every state of a box, aabb() is the AABB passed to
\* new_with_material, transformation() is the identity and is_transparent()
\* is false, whichever material the box was built with and whatever render
\* calls were made.
C17_BoxAccessors ==
    box.exists =>
        /\ box_aabb = box_call.passed
        /\ box_transformation = Identity4
        /\ box_transformation
             = [r \in 1..4 |-> [c \in 1..4 |-> IF r = c THEN 1 ELSE 0]]
        /\ ~box_is_transparent

\* A box built with a transparent material around a box away from the
\* origin, after a failed render call.
C17_Witness ==
    /\ box.exists
    /\ box.model.material.transparent
    /\ box_call.op \in BoxRenderOps
    /\ box_call.result = "Err"
    /\ box_aabb = [min |-> <<-1, 2, 1>>, max |-> <<0, 4, 4>>]
    /\ ~box_is_transparent

====
